---- MODULE Spec2Model ----
(***************************************************************************)
(* HiPAT: hipat_control.py (control loop, persisted shelve store,          *)
(* stability evaluation, correction tiers) and check_offset.py (ntpq probe *)
(* and confidence estimator).                                              *)
(*                                                                         *)
(* Units: offsets and jitter are in hundredths of a millisecond, so        *)
(* 1000.04 ms is 100004 and 1.0 ms is 100.  Time is in seconds.            *)
(* A probe field is <<"num", v>> when float() parsed it and <<"str", 0>>   *)
(* when the text was kept (check_offset.py:83-86).                         *)
(***************************************************************************)
EXTENDS Integers, Sequences, FiniteSets, TLC

VARIABLES pc, db, dbOpen, now, config_freq_adj, offset, offsetFresh,
          devlog, startlog, exc, op, ntpq_info, verdict,
          qpc, sample_range, offset_list, std_iter, std_limit, n_samples,
          q_exc, new_average, q_branch

vars == <<pc, db, dbOpen, now, config_freq_adj, offset, offsetFresh,
          devlog, startlog, exc, op, ntpq_info, verdict,
          qpc, sample_range, offset_list, std_iter, std_limit, n_samples,
          q_exc, new_average, q_branch>>

mainVars == <<pc, db, dbOpen, now, config_freq_adj, offset, offsetFresh,
              devlog, startlog, exc, op, ntpq_info, verdict>>

qVars == <<qpc, sample_range, offset_list, std_iter, std_limit, n_samples,
          q_exc, new_average, q_branch>>

(***************************************************************************)
(* Bounds                                                                  *)
(***************************************************************************)
MaxNow == 1200
MaxIter == 12
MaxLoop == 2

(***************************************************************************)
(* Program constants                                                       *)
(***************************************************************************)
FullReach == 377
JitterLimit == 100
OffsetLimit == 200
StableUptime == 600
GrossLimit == 100000
NoneLimit == 100
LoopSleep == 60
WindowSize == 10
StdLimitStart == 100
StdLimitStep == 5

(***************************************************************************)
(* Input sets                                                              *)
(***************************************************************************)
NoOffset == 999999999
Offsets == {-100004, -100000, -150, -100, -99, 0, 99, 100, 99996, 100000, 100004}
EstimatorElapsed == {539, 540}
PrevAverage == 7
Num(v) == <<"num", v>>
Text == <<"str", 0>>
ReachVals == {Num(376), Num(377), Text}
JitterVals == {Num(100), Num(101)}
ProbeOffsetVals == {Num(-200), Num(0), Num(200)}
ProbeExceptions == {"CalledProcessError", "AttributeError"}
ProbeFailures == [raised : ProbeExceptions]
DeviceOutcomes == {"ok", "error"}
ConfigFlags == {"0", "1"}
SampleVals == {0, 100, 300}
\* the offsets the reference reports during one run of the estimator
SampleRanges == {r \in SUBSET SampleVals : Cardinality(r) = 2 /\ 0 \in r}

(***************************************************************************)
(* The shelve store: a function from the keys present to their values.     *)
(***************************************************************************)
EmptyDb == [k \in {} |-> 0]
Has(d, k) == k \in DOMAIN d
Put(d, k, v) == (k :> v) @@ d
InitStores == {EmptyDb, Put(EmptyDb, "average", PrevAverage)}

(***************************************************************************)
(* check_offset.get_offset as seen by a caller: a row of parsed fields or  *)
(* an exception (check_output failing, or re.search returning None and     *)
(* output.group raising AttributeError).                                   *)
(***************************************************************************)
ProbeRows == [reach : ReachVals, jitter : JitterVals, offset : ProbeOffsetVals]
IsRow(r) == "reach" \in DOMAIN r
get_offset == ProbeRows \cup ProbeFailures

(***************************************************************************)
(* Python 2 comparisons between a probe field and a number: a str compares *)
(* unequal to and greater than every number.                               *)
(***************************************************************************)
FieldNe(x, n) == x[1] = "str" \/ x[2] # n
FieldGt(x, n) == x[1] = "str" \/ x[2] > n
FieldInOpen(x, lo, hi) == x[1] = "num" /\ lo < x[2] /\ x[2] < hi

(***************************************************************************)
(* shelvefile(): hipat_control.py:48-62                                    *)
(***************************************************************************)
ShelveDefaultStable == FALSE

ShelveWithDefault(d, k, v) == IF Has(d, k) THEN d ELSE Put(d, k, v)

shelvefile(d, t) ==
    LET d1 == ShelveWithDefault(d, "average", 0)
        d2 == ShelveWithDefault(d1, "freq_adj", <<t, 0>>)
        d3 == ShelveWithDefault(d2, "stable_system", ShelveDefaultStable)
    IN  Put(d3, "hipat_start", t)

(***************************************************************************)
(* check_stable_system(): hipat_control.py:91-120.  info is ntpq_info, the *)
(* two get_offset results; a failed probe raises before any write and the  *)
(* opened store is never closed.                                           *)
(***************************************************************************)
\* the per-source checks without the reach test
ServerFails_NoReach(s) ==
    \/ FieldGt(s.jitter, JitterLimit)
    \/ ~FieldInOpen(s.offset, -OffsetLimit, OffsetLimit)
ServerFails(s) ==
    \/ FieldNe(s.reach, FullReach)
    \/ FieldGt(s.jitter, JitterLimit)
    \/ ~FieldInOpen(s.offset, -OffsetLimit, OffsetLimit)

\* the uptime test with <= in place of <
UptimeTooShort_Inclusive(d, t) == t - d["hipat_start"] <= StableUptime
UptimeTooShort(d, t) == t - d["hipat_start"] < StableUptime

check_stable_system(d, info, t) ==
    IF ~IsRow(info[1]) THEN [db |-> d, ret |-> "raised", exc |-> info[1].raised, open |-> TRUE]
    ELSE IF ~IsRow(info[2]) THEN [db |-> d, ret |-> "raised", exc |-> info[2].raised, open |-> TRUE]
    ELSE IF ServerFails(info[1]) \/ ServerFails(info[2])
         THEN [db |-> Put(d, "stable_system", FALSE), ret |-> "False", exc |-> "none", open |-> FALSE]
    ELSE IF UptimeTooShort(d, t)
         THEN [db |-> Put(d, "stable_system", FALSE), ret |-> "False", exc |-> "none", open |-> FALSE]
    ELSE [db |-> Put(d, "stable_system", TRUE), ret |-> "True", exc |-> "none", open |-> FALSE]

(***************************************************************************)
(* make_adjust(): hipat_control.py:156-179                                 *)
(***************************************************************************)
Abs(x) == IF x < 0 THEN -x ELSE x
Sign(x) == IF x < 0 THEN -1 ELSE 1

\* round(offset, 1): to the nearest tenth of a millisecond, halves away from
\* zero (Python 2).  A decimal ending in 5 hundredths is not exact in binary,
\* so Offsets holds no such value.
Round1(o) == Sign(o) * (((Abs(o) + 5) \div 10) * 10)

\* the boundary taken into the gross tier
IsGross_Inclusive(o) == -GrossLimit >= o \/ o >= GrossLimit
IsGross(o) == -GrossLimit > o \/ o > GrossLimit
\* the fine tier entered only above 1.0 ms
IsFine_Strict(o) == Round1(o) > NoneLimit \/ Round1(o) < -NoneLimit
IsFine(o) == Round1(o) >= NoneLimit \/ Round1(o) <= -NoneLimit

\* the while loop at line 173 without the return at line 178
AdjustMsPasses_NoReturn(o) == IF IsFine(o) THEN MaxLoop ELSE 0
\* number of passes of the while loop at line 173 (the body returns at 178)
AdjustMsPasses(o) == IF IsFine(o) THEN 1 ELSE 0

Repeat(x, n) == [i \in 1..n |-> x]

\* a gross correction that marks the system stable instead of unstable
GrossWrites_SetsStable(d) == Put(Put(d, "average", 0), "stable_system", TRUE)
GrossWrites(d) == Put(Put(d, "average", 0), "stable_system", FALSE)

\* a fine correction that clears the stability flag as the gross one does
FineWrites_ClearsStable(d) == Put(Put(d, "average", 0), "stable_system", FALSE)
FineWrites(d) == Put(d, "average", 0)

make_adjust(d, o, dev) ==
    IF IsGross(o)
    THEN IF dev = "ok"
         THEN [db |-> GrossWrites(d), calls |-> <<"date_time">>, exc |-> "none", open |-> FALSE]
         ELSE [db |-> d, calls |-> <<"date_time">>, exc |-> "DeviceCommunicationError", open |-> TRUE]
    ELSE IF AdjustMsPasses(o) > 0
    THEN IF dev = "ok"
         THEN [db |-> FineWrites(d), calls |-> Repeat("adjust_ms", AdjustMsPasses(o)),
               exc |-> "none", open |-> FALSE]
         ELSE [db |-> d, calls |-> <<"adjust_ms">>, exc |-> "DeviceCommunicationError", open |-> TRUE]
    ELSE [db |-> d, calls |-> <<>>, exc |-> "none", open |-> TRUE]

(***************************************************************************)
(* main(): hipat_control.py:181-214                                        *)
(***************************************************************************)
OutOfRange(o) == ~(-NoneLimit < o /\ o < NoneLimit)

\* line 208 names the function check_stable_system without calling it;
\* a function object is true
check_stable_system_object == TRUE

\* the feature flag left out of the test
TrimGate_IgnoresFlag(cfg) == check_stable_system_object
TrimGate(cfg) == cfg = "1" /\ check_stable_system_object

Crash(cause) ==
    /\ pc' = "crashed"
    /\ exc' = cause

Init ==
    /\ pc = "stopped"
    /\ db \in InitStores
    /\ dbOpen = FALSE
    /\ now = 0
    /\ config_freq_adj \in ConfigFlags
    /\ offset = NoOffset
    /\ offsetFresh = FALSE
    /\ devlog = <<>>
    /\ startlog = <<>>
    /\ exc = "none"
    /\ op = "none"
    /\ ntpq_info = <<>>
    /\ verdict = "none"
    /\ qpc = "idle"
    /\ sample_range = {}
    /\ offset_list = <<>>
    /\ std_iter = 0
    /\ std_limit = StdLimitStart
    /\ n_samples = 0
    /\ q_exc = "none"
    /\ new_average = 0
    /\ q_branch = "none"

\* lines 187-188 and the import of config: a new process starts
Start ==
    /\ pc \in {"stopped", "crashed"}
    /\ db' = shelvefile(db, now)
    /\ dbOpen' = FALSE
    /\ config_freq_adj' \in ConfigFlags
    /\ pc' = "crtc_restart"
    /\ offset' = NoOffset
    /\ offsetFresh' = FALSE
    /\ devlog' = <<>>
    /\ startlog' = <<>>
    /\ exc' = "none"
    /\ op' = "shelvefile"
    /\ ntpq_info' = <<>>
    /\ verdict' = "none"
    /\ UNCHANGED <<now>>
    /\ UNCHANGED qVars

\* the process is ended from outside (reboot, kill)
Kill ==
    /\ pc \notin {"stopped", "crashed"}
    /\ pc' = "stopped"
    /\ dbOpen' = FALSE
    /\ offset' = NoOffset
    /\ offsetFresh' = FALSE
    /\ devlog' = <<>>
    /\ startlog' = <<>>
    /\ op' = "kill"
    /\ ntpq_info' = <<>>
    /\ verdict' = "none"
    /\ UNCHANGED <<db, now, config_freq_adj, exc>>
    /\ UNCHANGED qVars

\* the restart flag read and ignored
crtc_restart_NoReset(flag) == IF flag = "Y" THEN <<"send_p_Y">> ELSE <<"send_p_N">>
\* crtc_restart(ser), lines 64-74: the device calls it makes for an answer
\* flag to the 'p' query; ser.freq_adj(True) is the reset
crtc_restart(flag) ==
    IF flag = "Y" THEN <<"send_p_Y", "freq_adj_reset">>
                  ELSE <<"send_p_N">>

\* line 192
CrtcRestart ==
    /\ pc = "crtc_restart"
    /\ \E flag \in {"Y", "N"}, dev \in DeviceOutcomes :
         IF dev = "error"
         THEN /\ Crash("DeviceCommunicationError")
              /\ startlog' = Append(startlog, "send_p_failed")
         ELSE /\ pc' = "check_crtc"
              /\ exc' = exc
              /\ startlog' = startlog \o crtc_restart(flag)
    /\ op' = "crtc_restart"
    /\ ntpq_info' = <<>>
    /\ verdict' = "none"
    /\ UNCHANGED <<db, dbOpen, now, config_freq_adj, offset, offsetFresh, devlog>>
    /\ UNCHANGED qVars

\* line 193
StartupCheckCrtc ==
    /\ pc = "check_crtc"
    /\ \E dev \in DeviceOutcomes :
         IF dev = "error"
         THEN Crash("DeviceCommunicationError")
         ELSE pc' = "loop" /\ exc' = exc
    /\ startlog' = Append(startlog, "check_crtc")
    /\ op' = "check_crtc"
    /\ ntpq_info' = <<>>
    /\ verdict' = "none"
    /\ UNCHANGED <<db, dbOpen, now, config_freq_adj, offset, offsetFresh, devlog>>
    /\ UNCHANGED qVars

\* line 202: the first call of a cycle
LoopCheckCrtc ==
    /\ pc = "loop"
    /\ \E dev \in DeviceOutcomes :
         IF dev = "error"
         THEN Crash("DeviceCommunicationError")
         ELSE pc' = "estimate" /\ exc' = exc
    /\ devlog' = <<"check_crtc">>
    /\ op' = "check_crtc"
    /\ ntpq_info' = <<>>
    /\ verdict' = "none"
    /\ UNCHANGED <<db, dbOpen, now, config_freq_adj, offset, offsetFresh, startlog>>
    /\ UNCHANGED qVars

\* line 203: the estimator returns some mean of ten samples after at least
\* ten 20 second waits, or a probe exception leaves it
GetQualityOffset ==
    /\ pc = "estimate"
    /\ \E d \in EstimatorElapsed :
         /\ now + d <= MaxNow
         /\ now' = now + d
    /\ \/ \E o \in Offsets :
            /\ offset' = o
            /\ offsetFresh' = TRUE
            /\ pc' = "adjust"
            /\ exc' = exc
       \/ \E f \in ProbeExceptions :
            /\ Crash(f)
            /\ UNCHANGED <<offset, offsetFresh>>
    /\ op' = "get_quality_offset"
    /\ ntpq_info' = <<>>
    /\ verdict' = "none"
    /\ UNCHANGED <<db, dbOpen, config_freq_adj, devlog, startlog>>
    /\ UNCHANGED qVars

\* lines 205-207
Adjust ==
    /\ pc = "adjust"
    /\ IF OutOfRange(offset)
       THEN \E dev \in DeviceOutcomes :
              LET r == make_adjust(db, offset, dev) IN
              /\ db' = r.db
              /\ dbOpen' = r.open
              /\ devlog' = devlog \o r.calls
              /\ offsetFresh' = FALSE
              /\ op' = "make_adjust"
              /\ IF r.exc # "none"
                 THEN Crash(r.exc)
                 ELSE pc' = "freq_adj" /\ exc' = exc
       ELSE /\ pc' = "sleep"
            /\ op' = "none"
            /\ UNCHANGED <<db, dbOpen, devlog, offsetFresh, exc>>
    /\ ntpq_info' = <<>>
    /\ verdict' = "none"
    /\ UNCHANGED <<now, config_freq_adj, offset, startlog>>
    /\ UNCHANGED qVars

\* lines 208-212
FreqAdj ==
    /\ pc = "freq_adj"
    /\ IF TrimGate(config_freq_adj)
       THEN \E dev \in DeviceOutcomes :
              /\ devlog' = Append(devlog, "freq_adj")
              /\ op' = "freq_adj"
              /\ IF dev = "error"
                 THEN Crash("DeviceCommunicationError")
                 ELSE pc' = "sleep" /\ exc' = exc
       ELSE /\ pc' = "sleep"
            /\ op' = "none"
            /\ UNCHANGED <<devlog, exc>>
    /\ ntpq_info' = <<>>
    /\ verdict' = "none"
    /\ UNCHANGED <<db, dbOpen, now, config_freq_adj, offset, offsetFresh, startlog>>
    /\ UNCHANGED qVars

\* lines 213-214
Sleep ==
    /\ pc = "sleep"
    /\ now + LoopSleep <= MaxNow
    /\ now' = now + LoopSleep
    /\ pc' = "loop"
    /\ offset' = NoOffset
    /\ offsetFresh' = FALSE
    /\ devlog' = <<>>
    /\ op' = "sleep"
    /\ ntpq_info' = <<>>
    /\ verdict' = "none"
    /\ UNCHANGED <<db, dbOpen, config_freq_adj, exc, startlog>>
    /\ UNCHANGED qVars

\* a stability evaluation, made once between two cycles of the running
\* process (the program is single threaded)
CheckStableSystem ==
    /\ pc = "loop"
    /\ op # "check_stable_system"
    /\ Has(db, "hipat_start")
    /\ \E cesium \in get_offset, ref \in get_offset :
         LET r == check_stable_system(db, <<cesium, ref>>, now) IN
         /\ ntpq_info' = <<cesium, ref>>
         /\ db' = r.db
         /\ dbOpen' = r.open
         /\ verdict' = r.ret
    /\ op' = "check_stable_system"
    /\ UNCHANGED <<pc, now, config_freq_adj, offset, offsetFresh, devlog, startlog, exc>>
    /\ UNCHANGED qVars

Next ==
    \/ Start
    \/ Kill
    \/ CrtcRestart
    \/ StartupCheckCrtc
    \/ LoopCheckCrtc
    \/ GetQualityOffset
    \/ Adjust
    \/ FreqAdj
    \/ Sleep
    \/ CheckStableSystem

Spec == Init /\ [][Next]_vars

(***************************************************************************)
(* check_offset.py: calculate_average_std and get_quality_offset.          *)
(* With n = 10 samples x (hundredths of a ms), sum S and sum of squares Q: *)
(* average = S / 10 and std = sqrt(10 * Q - S * S) / 10, so comparisons of *)
(* standard deviations are comparisons of V = 10 * Q - S * S.  std_limit   *)
(* is in hundredths of a ms.  new_average is kept times ten (S itself).    *)
(* An entry of offset_list is <<k, x>>: the offset x returned by the k-th  *)
(* successful get_offset() call; n_samples counts those calls and std_iter *)
(* the completed passes of the while loop.                                 *)
(***************************************************************************)
Values(w) == [i \in 1..Len(w) |-> w[i][2]]

RECURSIVE SumSeq(_)
SumSeq(w) == IF w = <<>> THEN 0 ELSE w[1] + SumSeq(Tail(w))

Squares(w) == [i \in 1..Len(w) |-> w[i] * w[i]]

\* lines 101-105: Len(w)^2 times the variance
ScaledVariance(w) == Len(w) * SumSeq(Squares(w)) - SumSeq(w) * SumSeq(w)

\* new_std < old_std in place of <=
StdLe_Strict(vnew, vold) == vnew < vold
\* new_std <= old_std
StdLe(vnew, vold) == vnew <= vold
\* new_std <= std_limit
StdUnderLimit(v, lim) == v <= 100 * lim * lim
\* new_std <= std_limit / 3.0
StdUnderThird(v, lim) == 9 * v <= 100 * lim * lim

\* the two acceptance tests in the opposite order
AcceptBranch_ThirdFirst(vold, vnew, lim) ==
    IF StdUnderThird(vnew, lim) THEN "third"
    ELSE IF StdLe(vnew, vold) /\ StdUnderLimit(vnew, lim) THEN "improving"
    ELSE "wait"
\* lines 140-147: the branch taken
AcceptBranch(vold, vnew, lim) ==
    IF StdLe(vnew, vold) /\ StdUnderLimit(vnew, lim) THEN "improving"
    ELSE IF StdUnderThird(vnew, lim) THEN "third"
    ELSE "wait"

\* the newest entry dropped in place of the oldest
Evict_Newest(w) == SubSeq(w, 1, Len(w) - 1)
\* line 136: offset_list[1:]
Evict(w) == Tail(w)

\* the increment placed in the else branch at line 147
NextStdLimit_WhenWaiting(lim, branch) == IF branch = "wait" THEN lim + StdLimitStep ELSE lim
\* no increment at all
NextStdLimit_Fixed(lim, branch) == lim
\* line 148: executed on every pass, whatever the branch
NextStdLimit(lim, branch) == lim + StdLimitStep

\* the main loop at rest
MainIdle ==
    /\ pc = "stopped"
    /\ db = EmptyDb
    /\ dbOpen = FALSE
    /\ now = 0
    /\ config_freq_adj = "0"
    /\ offset = NoOffset
    /\ offsetFresh = FALSE
    /\ devlog = <<>>
    /\ startlog = <<>>
    /\ exc = "none"
    /\ op = "none"
    /\ ntpq_info = <<>>
    /\ verdict = "none"

\* lines 115-117: the locals at entry
EstimatorEntry ==
    /\ qpc = "fill"
    /\ offset_list = <<>>
    /\ std_iter = 0
    /\ std_limit = StdLimitStart
    /\ n_samples = 0
    /\ q_exc = "none"
    /\ new_average = 0
    /\ q_branch = "none"

InitQ ==
    /\ MainIdle
    /\ EstimatorEntry
    /\ sample_range \in SampleRanges

\* lines 121-124: one pass of the initial fill
QFill ==
    /\ qpc = "fill"
    /\ \E s \in sample_range :
         /\ offset_list' = Append(offset_list, <<n_samples + 1, s>>)
         /\ qpc' = IF Len(offset_list) + 1 = WindowSize THEN "loop" ELSE "fill"
    /\ n_samples' = n_samples + 1
    /\ UNCHANGED <<sample_range, std_iter, std_limit, q_exc, new_average, q_branch>>
    /\ UNCHANGED mainVars

\* line 122 or line 135: get_offset raises and nothing catches it
QProbeRaises ==
    /\ qpc \in {"fill", "loop"}
    /\ \E f \in ProbeExceptions :
         /\ q_exc' = f
         /\ qpc' = "raised"
    /\ UNCHANGED <<sample_range, offset_list, std_iter, std_limit, n_samples,
                   new_average, q_branch>>
    /\ UNCHANGED mainVars

\* lines 128-148: one pass of the convergence loop
QLoop ==
    /\ qpc = "loop"
    /\ std_iter < MaxIter
    /\ \E s \in sample_range :
         \E old_std \in {ScaledVariance(Values(offset_list))} :
         \E window \in {Evict(Append(offset_list, <<n_samples + 1, s>>))} :
         \E new_std \in {ScaledVariance(Values(window))} :
         \E branch \in {AcceptBranch(old_std, new_std, std_limit)} :
             /\ offset_list' = window
             /\ new_average' = SumSeq(Values(window))
             /\ q_branch' = branch
             /\ qpc' = IF branch = "wait" THEN "loop" ELSE "done"
             /\ std_limit' = NextStdLimit(std_limit, branch)
    /\ n_samples' = n_samples + 1
    /\ std_iter' = std_iter + 1
    /\ UNCHANGED <<q_exc, sample_range>>
    /\ UNCHANGED mainVars

NextQ ==
    \/ QFill
    \/ QProbeRaises
    \/ QLoop

SpecQ == InitQ /\ [][NextQ]_vars

\* every probe succeeds; the loop and the fill are the only steps of the
\* single thread, so each is taken while it is enabled
NextQLive ==
    \/ QFill
    \/ QLoop

SpecQLive == InitQ /\ [][NextQLive]_vars /\ WF_vars(QFill) /\ WF_vars(QLoop)

(***************************************************************************)
(* Properties                                                              *)
(***************************************************************************)
StableFlag == Has(db, "stable_system") /\ db["stable_system"] = TRUE
Last(q) == q[Len(q)]
Corrections(q) == Cardinality({i \in 1..Len(q) : q[i] \in {"date_time", "adjust_ms"}})
Called(q, c) == \E i \in 1..Len(q) : q[i] = c
Evaluated == op = "check_stable_system"
BothRows == Evaluated /\ IsRow(ntpq_info[1]) /\ IsRow(ntpq_info[2])
PerfectRow(r) == r.reach = Num(377) /\ r.jitter = Num(100) /\ r.offset = Num(0)
Uptime == now - db["hipat_start"]

\* C1: a frequency trim (ser.freq_adj(False, offset)) is issued only while
\* the persisted stable_system flag is true.
C1_TrimOnlyWhenStable ==
    (devlog # <<>> /\ Last(devlog) = "freq_adj") => StableFlag

\* C2: every change of the persisted stable_system flag from false to true
\* is made by check_stable_system; shelvefile and make_adjust never make it.
C2_SoleWriterOfTrue ==
    [][(~StableFlag /\ StableFlag') => op' = "check_stable_system"]_vars

C2_Witness ==
    /\ Evaluated
    /\ verdict = "True"
    /\ StableFlag

\* C3: a completed fine correction sets average to 0 and keeps stable_system;
\* a completed gross correction sets average to 0 and stable_system to false;
\* both keep freq_adj and hipat_start.
C3_CorrectionWrites ==
    [][(op' = "make_adjust" /\ pc' = "freq_adj") =>
          /\ db'["average"] = 0
          /\ db'["freq_adj"] = db["freq_adj"]
          /\ db'["hipat_start"] = db["hipat_start"]
          /\ Last(devlog') = "adjust_ms" => db'["stable_system"] = db["stable_system"]
          /\ Last(devlog') = "date_time" => db'["stable_system"] = FALSE]_vars

C3_Witness ==
    /\ op = "make_adjust"
    /\ pc = "freq_adj"
    /\ Last(devlog) = "adjust_ms"
    /\ db["average"] = 0
    /\ db["stable_system"] = TRUE

\* C4: make_adjust dispatches date_time exactly when the offset is above
\* 1000 ms or below -1000 ms, and adjust_ms for 1000, -1000 and 999.96 ms;
\* never both.
C4_TierBoundary ==
    op = "make_adjust" =>
        /\ (offset > 100000 \/ offset < -100000) =>
               (Called(devlog, "date_time") /\ ~Called(devlog, "adjust_ms"))
        /\ offset \in {100000, -100000, 99996} =>
               (Called(devlog, "adjust_ms") /\ ~Called(devlog, "date_time"))
        /\ ~(Called(devlog, "date_time") /\ Called(devlog, "adjust_ms"))

C4_Witness ==
    /\ op = "make_adjust"
    /\ offset = 100000
    /\ Called(devlog, "adjust_ms")

\* C5: in one cycle at most one correction call (date_time or adjust_ms) is
\* made, and every correction uses an estimate that get_quality_offset
\* returned after the previous correction.
C5_OneCorrectionPerEstimate ==
    [][/\ Corrections(devlog') <= 1
       /\ Corrections(devlog') > Corrections(devlog) => offsetFresh]_vars

C5_Witness ==
    /\ op = "make_adjust"
    /\ Corrections(devlog) = 1
    /\ ~offsetFresh

\* C6: when both sources report a row and one of them has reach other than
\* 377, check_stable_system returns False and stable_system is stored false,
\* whatever the jitter, the offset and the uptime.
C6_ReachGate ==
    (BothRows /\ (ntpq_info[1].reach # Num(377) \/ ntpq_info[2].reach # Num(377))) =>
        (verdict = "False" /\ db["stable_system"] = FALSE)

C6_Witness ==
    /\ BothRows
    /\ ntpq_info[1].reach = Num(376)
    /\ ntpq_info[1].jitter = Num(100)
    /\ ntpq_info[1].offset = Num(0)
    /\ PerfectRow(ntpq_info[2])
    /\ Uptime >= 600
    /\ verdict = "False"
    /\ db["stable_system"] = FALSE

\* C7: with both sources passing every check, check_stable_system returns
\* and stores false when the uptime is below 600 s (599 s included) and
\* returns and stores true when it is 600 s or more.
C7_UptimeGate ==
    (BothRows /\ PerfectRow(ntpq_info[1]) /\ PerfectRow(ntpq_info[2])) =>
        /\ Uptime < 600 => (verdict = "False" /\ db["stable_system"] = FALSE)
        /\ Uptime >= 600 => (verdict = "True" /\ db["stable_system"] = TRUE)
        /\ db["stable_system"] = TRUE => Uptime >= 600

C7_Witness ==
    /\ BothRows
    /\ PerfectRow(ntpq_info[1])
    /\ PerfectRow(ntpq_info[2])
    /\ Uptime = 600
    /\ verdict = "True"

C7_Witness599 ==
    /\ BothRows
    /\ PerfectRow(ntpq_info[1])
    /\ PerfectRow(ntpq_info[2])
    /\ Uptime = 599
    /\ verdict = "False"

\* C8: an evaluation in which a probe fails (source unreachable, row not
\* found) or a field is not a number ends with the verdict false and
\* stable_system stored false.
C8_FailedProbeStoresFalse ==
    (Evaluated /\ (~BothRows \/ ntpq_info[1].reach = Text \/ ntpq_info[2].reach = Text)) =>
        (verdict = "False" /\ db["stable_system"] = FALSE)

\* C9: a probe failure during the initial fill or the convergence loop is
\* never propagated out of get_quality_offset.
C9_ProbeFailureNotPropagated ==
    qpc # "raised"

\* C10: a device-communication error raised by a clock-device call does not
\* end the control loop.
C10_DeviceErrorKeepsLooping ==
    ~(pc = "crashed" /\ exc = "DeviceCommunicationError")

\* helpers of the estimator properties
WindowVariance == ScaledVariance(Values(offset_list))
LoopPass == qpc = "loop" /\ std_iter' = std_iter + 1
RangeWidth == CHOOSE d \in 0..1000 :
                 \E lo \in sample_range, hi \in sample_range :
                     /\ d = hi - lo
                     /\ \A x \in sample_range : lo <= x /\ x <= hi

\* C11: when every probe succeeds and the offsets stay in a range of width
\* w (so the standard deviation is at most B = w / 2), get_quality_offset
\* eventually accepts, and the loop is never entered again once the limit
\* of the previous pass was at least 3 * B.
C11_Terminates ==
    /\ <>(qpc = "done")
    /\ [](qpc = "loop" /\ std_iter > 0 => 2 * (std_limit - 5) < 3 * RangeWidth)

C11_Witness ==
    /\ qpc = "done"
    /\ sample_range = {0, 300}
    /\ std_iter >= 3
    /\ WindowVariance > 0

\* C12 as stated: after a window of ten equal offsets the first pass accepts
\* through the strongly-bounded branch, whatever the eleventh sample.
C12_ZeroStdAcceptsByThird ==
    [][(LoopPass /\ std_iter = 0 /\ WindowVariance = 0) =>
          (qpc' = "done" /\ q_branch' = "third")]_vars

\* C12 amended: after a window of ten equal offsets the first pass accepts
\* exactly when the new standard deviation is at most a third of the limit
\* (1/3 ms): by the improving branch when the eleventh sample equals the
\* others, by the strongly-bounded branch when it differs; a sample further
\* away is not accepted on that pass.
C12_ZeroStdFirstPass ==
    [][(LoopPass /\ std_iter = 0 /\ WindowVariance = 0) =>
          /\ WindowVariance' = 0 => (qpc' = "done" /\ q_branch' = "improving")
          /\ (WindowVariance' > 0 /\ 9 * WindowVariance' <= 1000000) =>
                 (qpc' = "done" /\ q_branch' = "third")
          /\ 9 * WindowVariance' > 1000000 => (qpc' = "loop" /\ q_branch' = "wait")]_vars

\* nine equal offsets followed by a different one, accepted on the first pass
C12_Witness ==
    /\ qpc = "done"
    /\ std_iter = 1
    /\ q_branch = "third"
    /\ \A i \in 1..9 : offset_list[i][2] = offset_list[1][2]
    /\ offset_list[10][2] # offset_list[1][2]

\* C13 as stated: a pass in which the standard deviation does not grow and
\* stays above a third of the limit accepts through the improving branch.
C13_ImprovementAccepts ==
    [][(LoopPass /\ WindowVariance' <= WindowVariance
          /\ 9 * WindowVariance' > 100 * std_limit * std_limit) =>
          (qpc' = "done" /\ q_branch' = "improving")]_vars

\* C13 amended: such a pass accepts through the improving branch, not the
\* strongly-bounded one, when the new standard deviation is also at most the
\* limit; when it is above the limit the pass does not accept.
C13_BoundedImprovementAccepts ==
    [][(LoopPass /\ WindowVariance' <= WindowVariance
          /\ 9 * WindowVariance' > 100 * std_limit * std_limit) =>
          IF WindowVariance' <= 100 * std_limit * std_limit
          THEN qpc' = "done" /\ q_branch' = "improving"
          ELSE qpc' = "loop" /\ q_branch' = "wait"]_vars

\* accepted by the improving branch after a pass that waited, with the
\* standard deviation above a third of the limit of the accepting pass
C13_Witness ==
    /\ qpc = "done"
    /\ q_branch = "improving"
    /\ std_iter >= 2
    /\ 9 * WindowVariance > 100 * (std_limit - 5) * (std_limit - 5)

\* C14: after n completed passes std_limit is 1.0 + 0.05 * n; it never
\* decreases and every pass, accepting or not, adds 0.05.
C14_StdLimitLinear ==
    std_limit = 100 + 5 * std_iter

C14_Witness ==
    /\ qpc = "done"
    /\ std_iter = 3
    /\ std_limit = 115

\* C15: outside the initial fill the window holds exactly ten offsets, after
\* k passes the samples numbered k+1 .. k+10 in arrival order, and the value
\* returned is the mean of the final window.
C15_SlidingWindow ==
    /\ qpc = "fill" =>
          /\ Len(offset_list) < 10
          /\ \A j \in 1..Len(offset_list) : offset_list[j][1] = j
    /\ qpc \in {"loop", "done"} =>
          /\ Len(offset_list) = 10
          /\ \A j \in 1..10 : offset_list[j][1] = std_iter + j
    /\ qpc = "done" => new_average = SumSeq(Values(offset_list))

C15_Witness ==
    /\ qpc = "done"
    /\ std_iter = 2
    /\ offset_list[1][1] = 3
    /\ offset_list[10][1] = 12
    /\ offset_list[1][2] # offset_list[10][2]

\* helpers of the control-loop properties
InNoneRange(o) == -100 < o /\ o < 100
InLoop == pc \in {"loop", "estimate", "adjust", "freq_adj", "sleep"}
TrimAfterCorrection(q) ==
    \E i \in 1..Len(q), j \in 1..Len(q) :
        /\ i < j
        /\ q[i] \in {"date_time", "adjust_ms"}
        /\ q[j] = "freq_adj"

\* C16: a frequency trim is never made in a cycle whose offset is inside
\* (-1, 1) ms nor while config['freq_adj'] is not "1", and it comes after the
\* correction of the same cycle.
C16_TrimGuards ==
    Called(devlog, "freq_adj") =>
        /\ ~InNoneRange(offset)
        /\ config_freq_adj = "1"
        /\ TrimAfterCorrection(devlog)

C16_Witness ==
    /\ pc = "sleep"
    /\ offset = -100
    /\ devlog = <<"check_crtc", "adjust_ms", "freq_adj">>

\* C17 as stated: every completed cycle of the loop has queried the restart
\* flag of the clock device.
C17_RestartCheckedEachCycle ==
    pc = "sleep" => (Called(devlog, "send_p_Y") \/ Called(devlog, "send_p_N"))

\* C17 amended: the restart flag is queried once per process start, before
\* the loop; when it is set the reset ser.freq_adj(True) follows at once,
\* before any trim; the cycles of the loop do not query it again.
C17_RestartCheckedAtStart ==
    InLoop =>
        /\ Len(startlog) >= 2
        /\ startlog[1] \in {"send_p_Y", "send_p_N"}
        /\ startlog[1] = "send_p_Y" => startlog[2] = "freq_adj_reset"
        /\ Cardinality({i \in 1..Len(startlog) : startlog[i] \in {"send_p_Y", "send_p_N"}}) = 1
        /\ ~Called(devlog, "send_p_Y")
        /\ ~Called(devlog, "send_p_N")

C17_Witness ==
    /\ pc = "sleep"
    /\ Called(devlog, "freq_adj")
    /\ startlog[1] = "send_p_Y"
    /\ startlog[2] = "freq_adj_reset"

\* C18: whenever the stored stable_system is true the uptime of the current
\* process is at least 600 s.
C18_StableImpliesUptime ==
    StableFlag => Uptime >= 600

\* C19: an offset outside (-1, 1) ms gets exactly one correction call from
\* make_adjust (date_time beyond 1000 ms, adjust_ms otherwise); an offset
\* inside gets no correction or trim call and the store is not written in
\* that cycle.
C19_RangeTestsAgree ==
    [][/\ (pc = "adjust" /\ op' # "kill") =>
             IF InNoneRange(offset)
             THEN devlog' = devlog /\ db' = db /\ pc' = "sleep"
             ELSE /\ Corrections(devlog') = 1
                  /\ Last(devlog') = IF offset > 100000 \/ offset < -100000
                                     THEN "date_time" ELSE "adjust_ms"
       /\ (pc' = "sleep" /\ InNoneRange(offset')) => devlog' = <<"check_crtc">>
       /\ pc \in {"estimate", "sleep"} => db' = db]_vars

C19_Witness ==
    /\ op = "make_adjust"
    /\ offset = 100
    /\ Corrections(devlog) = 1
    /\ Last(devlog) = "adjust_ms"

C19_WitnessInRange ==
    /\ pc = "sleep"
    /\ offset = 99
    /\ devlog = <<"check_crtc">>

\* C20: no operation returns or is left by an exception with the shelve
\* store still open.
C20_StoreClosedOnExit ==
    ~dbOpen

====
